---- MODULE Spec2Model ----
(***************************************************************************)
(* Model of the nettools ICMP echo client (src/src/ping.cpp, second       *)
(* pinger class, and src/include/header.hpp).                              *)
(*                                                                         *)
(* Time is a discrete clock.  The session keeps `elapsed', the value of    *)
(* microsec_clock::universal_time() - time_sent_, in clock ticks; a second *)
(* has TicksPerSec ticks.  Handlers are atomic (single-threaded            *)
(* io_service) and may be dispatched late: the clock may advance while a   *)
(* completion handler is ready.                                            *)
(***************************************************************************)
EXTENDS Integers, Sequences, FiniteSets

\* ---------------------------------------------------------------- bounds
TicksPerSec == 2
MaxLag == 1
MaxSends == 2
MaxReceived == 2
MaxBodyLen == 3
MaxSamples == 3        \* replies accepted in the statistics harness

\* ------------------------------------------------------ program constants
TimeoutSeconds == 5
DelaySeconds == 1
TimeoutMs == 5000
BodyLen == 56
BodyByte == 122
echo_reply == 0
echo_request == 8
LDBL_MAX == 1000000

TimeoutTicks == TimeoutSeconds * TicksPerSec
DelayTicks == DelaySeconds * TicksPerSec
MaxElapsed == TimeoutTicks + MaxLag

Max(a, b) == IF a >= b THEN a ELSE b
Min(a, b) == IF a <= b THEN a ELSE b

\* ------------------------------------------------------------ byte helpers
\* (sequences are built with \o so that they are tuples, not functions)
Zeros(n) == [i \in 1..n |-> 0] \o <<>>
Fill(n, b) == [i \in 1..n |-> b] \o <<>>
Take(s, n) == SubSeq(s, 1, Min(n, Len(s)))
Drop(s, n) == SubSeq(s, Min(n, Len(s)) + 1, Len(s))
\* overwrite the first Len(d) bytes of rep starting at offset off (0-based)
Overwrite(rep, off, d) ==
  [i \in 1..Len(rep) |-> IF i > off /\ i <= off + Len(d) THEN d[i - off] ELSE rep[i]] \o <<>>

\* --------------------------------------------------- icmp_header (header.hpp)
icmp_header == Zeros(8)

\* faulty variant: low byte taken as the high byte too
icmp_decode_noshift(rep, a, b) == (rep[b + 1] * 256 + rep[b + 1]) % 65536
icmp_decode(rep, a, b) == (rep[a + 1] * 256 + rep[b + 1]) % 65536

icmp_encode(rep, a, b, n) ==
  [rep EXCEPT ![a + 1] = (n \div 256) % 256, ![b + 1] = n % 256]

icmp_type(rep) == rep[1]
icmp_code(rep) == rep[2]
icmp_checksum(rep) == icmp_decode(rep, 2, 3)
icmp_identifier(rep) == icmp_decode(rep, 4, 5)
icmp_sequence_number(rep) == icmp_decode(rep, 6, 7)

icmp_set_type(rep, n) == [rep EXCEPT ![1] = n % 256]
icmp_set_code(rep, n) == [rep EXCEPT ![2] = n % 256]
icmp_set_checksum(rep, n) == icmp_encode(rep, 2, 3, n)
icmp_set_identifier(rep, n) == icmp_encode(rep, 4, 5, n)
icmp_set_sequence_number(rep, n) == icmp_encode(rep, 6, 7, n)

\* ------------------------------------------------------------ std::istream
\* A stream is its unread bytes and its fail state.  read(n) on a failed
\* stream does nothing; a short read delivers what is there and fails.
MkStream(bytes) == [buf |-> bytes, fail |-> FALSE]

StreamRead(is, n) ==
  IF is.fail THEN [is |-> is, data |-> <<>>]
  ELSE IF Len(is.buf) < n
    THEN [is |-> [buf |-> <<>>, fail |-> TRUE], data |-> is.buf]
    ELSE [is |-> [buf |-> Drop(is.buf, n), fail |-> FALSE], data |-> Take(is.buf, n)]

\* operator>>(std::istream&, icmp_header&)
icmp_read(is, rep) ==
  LET r == StreamRead(is, 8)
  IN [is |-> r.is, rep |-> Overwrite(rep, 0, r.data)]

\* operator<<(std::ostream&, const icmp_header&)
icmp_write(os, rep) == os \o rep

\* --------------------------------------------------------- compute_checksum
\* the loop over the body (lines 89-97): the bytes at even offsets are the
\* high bytes, those at odd offsets the low bytes; acc[i] is the sum after
\* i bytes
\* faulty variant: an odd last byte is added as a low byte
body_sum_odd_low(bytes) ==
  LET acc[i \in 0..Len(bytes)] ==
        IF i = 0 THEN 0
        ELSE acc[i - 1] + (IF i % 2 = 1 /\ i < Len(bytes) THEN bytes[i] * 256 ELSE bytes[i])
  IN acc[Len(bytes)]
body_sum(bytes) ==
  LET acc[i \in 0..Len(bytes)] ==
        IF i = 0 THEN 0
        ELSE acc[i - 1] + (IF i % 2 = 1 THEN bytes[i] * 256 ELSE bytes[i])
  IN acc[Len(bytes)]

\* faulty variant: a single fold, the carry of the first fold is not added back
checksum_one_fold(header, payload) ==
  LET sum0 == icmp_type(header) * 256 + icmp_code(header)
              + icmp_identifier(header) + icmp_sequence_number(header)
              + body_sum(payload)
      sum1 == (sum0 \div 65536) + (sum0 % 65536)
  IN 65535 - (sum1 % 65536)
\* the value compute_checksum passes to header.checksum(): unsigned int sum,
\* two folds, and ~sum truncated to unsigned short, i.e. 65535 - sum % 2^16
checksum_value(header, payload) ==
  LET sum0 == icmp_type(header) * 256 + icmp_code(header)
              + icmp_identifier(header) + icmp_sequence_number(header)
              + body_sum(payload)
      sum1 == (sum0 \div 65536) + (sum0 % 65536)
      sum2 == sum1 + (sum1 \div 65536)
  IN 65535 - (sum2 % 65536)

compute_checksum(header, payload) ==
  icmp_set_checksum(header, checksum_value(header, payload))

\* ------------------------------------------------- ipv4_header (header.hpp)
ipv4_header == Zeros(60)

ipv4_version(rep) == (rep[1] \div 16) % 16
ipv4_header_length(rep) == (rep[1] % 16) * 4
ipv4_time_to_live(rep) == rep[9]

\* faulty variant: the version nibble is not looked at
ipv4_read_any_version(is, rep) ==
  LET r1 == StreamRead(is, 20)
      rep1 == Overwrite(rep, 0, r1.data)
      options_length == ipv4_header_length(rep1) - 20
  IN IF options_length < 0 \/ options_length > 40
       THEN [is |-> [r1.is EXCEPT !.fail = TRUE], rep |-> rep1]
       ELSE LET r2 == StreamRead(r1.is, options_length)
            IN [is |-> r2.is, rep |-> Overwrite(rep1, 20, r2.data)]
\* operator>>(std::istream&, ipv4_header&)
ipv4_read(is, rep) ==
  LET r1 == StreamRead(is, 20)
      rep1 == Overwrite(rep, 0, r1.data)
      is1 == IF ipv4_version(rep1) # 4 THEN [r1.is EXCEPT !.fail = TRUE] ELSE r1.is
      options_length == ipv4_header_length(rep1) - 20
  IN IF options_length < 0 \/ options_length > 40
       THEN [is |-> [is1 EXCEPT !.fail = TRUE], rep |-> rep1]
       ELSE LET r2 == StreamRead(is1, options_length)
            IN [is |-> r2.is, rep |-> Overwrite(rep1, 20, r2.data)]

\* --------------------------------------------------------------- variables
VARIABLES
  proc,              \* "running", "terminated" (exit(0)) or "exception" (main's catch)
  exit_cause,        \* what ended the process: "none", "signal", "setup", "send_to"
  pid,               \* ::getpid()
  sequence_number_,
  num_replies_,
  num_transmitted_,
  num_received_,
  ttl_min_, ttl_max_, ttl_sum_, ttl_sum2_,   \* long double, as fractions num/den
  elapsed,           \* universal_time() - time_sent_, in ticks
  timer_,            \* the deadline_timer: its one wait and its expiry
  receiving,         \* an async_receive is outstanding on socket_
  cycle,             \* history: what happened since the last send
  lastSend,          \* history: the last send and the cycle it closed
  lastEvent,         \* history: the handler that ran last and what it printed
  summary,           \* what handle_termination printed
  hdr, body, wire, rx, args, cstep,          \* codec harness (SpecCodec)
  ip_hdr, stream,    \* decode harness (SpecDecode): the ipv4_header and the istream
  samples            \* statistics harness (SpecStats): the round-trip times accepted

sessionVars == <<proc, exit_cause, pid, sequence_number_, num_replies_,
                 num_transmitted_, num_received_, ttl_min_, ttl_max_, ttl_sum_,
                 ttl_sum2_, elapsed, timer_, receiving, cycle, lastSend,
                 lastEvent, summary>>
codecVars == <<hdr, body, wire, rx, args, cstep>>
harnessVars == <<ip_hdr, stream, samples>>
vars == <<sessionVars, codecVars, harnessVars>>

\* ------------------------------------------------------------- long double
\* A long double is kept as a fraction; den = 0 is the result of a division
\* by zero (NaN for 0/0, infinity otherwise).
F(n) == [num |-> n, den |-> 1]
FDiv(x, n) == [num |-> x.num, den |-> x.den * n]
FMul(x, y) == [num |-> x.num * y.num, den |-> x.den * y.den]
FSub(x, y) == [num |-> x.num * y.den - y.num * x.den, den |-> x.den * y.den]
FAdd(x, y) == [num |-> x.num * y.den + y.num * x.den, den |-> x.den * y.den]
IsNaN(x) == x.den = 0
\* faulty variant: keeps the larger of the two
fmin_takes_larger(x, y) == IF x.num * y.den >= y.num * x.den THEN x ELSE y
fmin(x, y) == IF x.num * y.den <= y.num * x.den THEN x ELSE y
fmax(x, y) == IF x.num * y.den >= y.num * x.den THEN x ELSE y

\* --------------------------------------------------------------- the clock
\* time_duration::total_milliseconds() of a duration of e ticks (truncating)
total_milliseconds(e) == (e * 1000) \div TicksPerSec

\* static_cast<unsigned short>(::getpid())
get_identifier == pid % 65536

\* ---------------------------------------------------------- deadline_timer
\* timer_ holds at most one wait.  status "pending": in the timer queue;
\* "ready": its handler is queued for dispatch with error code ec.
timer_arm(h, expiry) == [handler |-> h, expiry |-> expiry, status |-> "pending", ec |-> "ok"]

\* faulty variant: cancel() discards a pending wait and its handler
timer_cancel_drops(t) ==
  IF t.status = "pending" THEN [t EXCEPT !.status = "idle", !.ec = "aborted"] ELSE t
\* deadline_timer::cancel(): a pending wait completes with operation_aborted;
\* a wait whose handler is already queued is not affected
timer_cancel(t) ==
  IF t.status = "pending" THEN [t EXCEPT !.status = "ready", !.ec = "aborted"] ELSE t

timer_idle == [handler |-> "none", expiry |-> 0, status |-> "idle", ec |-> "ok"]

\* the wait could be dispatched now: every further tick is dispatch latency
timer_due ==
  \/ timer_.status = "ready"
  \/ timer_.status = "pending" /\ timer_.expiry <= elapsed

\* ------------------------------------------------------------ the datagrams
\* What the raw socket can deliver: an IPv4 header (ihl words, ihl - 5 words
\* of options) followed by what is left of an ICMP message.
MkIpv4(version, ihl, ttl) ==
  [i \in 1..Max(20, ihl * 4) |->
     IF i = 1 THEN version * 16 + ihl
     ELSE IF i = 9 THEN ttl
     ELSE IF i = 10 THEN 1
     ELSE 0] \o <<>>

MkIcmp(type, id, seq, payload) ==
  LET h == icmp_set_sequence_number(
             icmp_set_identifier(
               icmp_set_code(icmp_set_type(icmp_header, type), 0), id), seq)
  IN icmp_write(<<>>, compute_checksum(h, payload)) \o payload

DatagramKinds == <<"reply", "reply_prev_seq", "reply_other_id", "request",
                   "truncated", "bad_version", "bad_ihl", "none">>

DatagramBytes(kind, id, seq) ==
  LET zs == Fill(BodyLen, BodyByte)
  IN CASE kind = "reply" -> MkIpv4(4, 5, 64) \o MkIcmp(echo_reply, id, seq, zs)
       [] kind = "reply_prev_seq" ->
            MkIpv4(4, 5, 64) \o MkIcmp(echo_reply, id, (seq + 65535) % 65536, zs)
       [] kind = "reply_other_id" ->
            MkIpv4(4, 5, 64) \o MkIcmp(echo_reply, (id + 1) % 65536, seq, zs)
       [] kind = "request" -> MkIpv4(4, 5, 64) \o MkIcmp(echo_request, id, seq, zs)
       [] kind = "truncated" -> MkIpv4(4, 5, 64) \o Take(MkIcmp(echo_reply, id, seq, zs), 4)
       [] kind = "bad_version" -> MkIpv4(6, 5, 64) \o MkIcmp(echo_reply, id, seq, zs)
       [] kind = "bad_ihl" -> MkIpv4(4, 4, 64) \o MkIcmp(echo_reply, id, seq, zs)
       [] OTHER -> <<>>

\* ------------------------------------------------------------------ history
\* cycle.first: elapsed at the first accepted reply (-1: none); cycle.lag:
\* ticks that passed while a timer handler could have been dispatched.
\* An event's `cancelled' is what timer_.cancel() returned (-1: not called).
\* cancels: calls of timer_.cancel(); timeouts: runs of handle_timeout
NewCycle == [notices |-> 0, reports |-> 0, first |-> -1, lag |-> 0,
             cancels |-> 0, timeouts |-> 0]
Ev(kind, lines, dgram, ec, accepted, cancelled) ==
  [kind |-> kind, lines |-> lines, dgram |-> dgram, ec |-> ec,
   accepted |-> accepted, cancelled |-> cancelled]
NoSummary == [printed |-> FALSE]

HarnessOff == ip_hdr = ipv4_header /\ stream = MkStream(<<>>) /\ samples = <<>>

NoArgs == [type |-> 0, code |-> 0, checksum |-> 0, identifier |-> 0, sequence_number |-> 0]

\* ----------------------------------------------------------------- session
\* pids of the process; the second does not fit an unsigned short
Pids == <<70007>>
\* earlier cycles of the session, all of them timed out
PriorSends == <<0, 65534>>

\* faulty variant: the constructor's send is not counted
Init_first_send_uncounted ==
  /\ pid \in {Pids[i] : i \in DOMAIN Pids}
  /\ \E prior \in {PriorSends[i] : i \in DOMAIN PriorSends}, ok \in BOOLEAN :
       /\ ok \/ prior = 0
       /\ proc = IF ok THEN "running" ELSE "exception"
       /\ exit_cause = IF ok THEN "none" ELSE "setup"
       /\ sequence_number_ = IF ok THEN (prior + 1) % 65536 ELSE 0
       /\ num_transmitted_ = IF ok THEN prior ELSE 0
       /\ timer_ = IF ok THEN timer_arm("handle_timeout", TimeoutTicks) ELSE timer_idle
       /\ receiving = ok
       /\ lastSend = [n |-> IF ok THEN 1 ELSE 0,
                      seq |-> IF ok THEN (prior + 1) % 65536 ELSE 0,
                      prev_seq |-> prior % 65536, interval |-> 0, prev |-> NewCycle]
  /\ num_replies_ = 0
  /\ num_received_ = 0
  /\ ttl_min_ = F(LDBL_MAX)
  /\ ttl_max_ = F(0)
  /\ ttl_sum_ = F(0)
  /\ ttl_sum2_ = F(0)
  /\ elapsed = 0
  /\ cycle = NewCycle
  /\ lastEvent = Ev("pinger", <<>>, "none", "ok", FALSE, -1)
  /\ summary = NoSummary
  /\ hdr = icmp_header /\ body = <<>> /\ wire = <<>> /\ rx = icmp_header
  /\ args = NoArgs
  /\ cstep = "off"
  /\ HarnessOff
\* The state after pinger's constructor: either resolve() or the socket
\* constructor threw (main's catch ends the process), or the first
\* start_send() and start_receive() have run.
Init ==
  /\ pid \in {Pids[i] : i \in DOMAIN Pids}
  /\ \E prior \in {PriorSends[i] : i \in DOMAIN PriorSends}, ok \in BOOLEAN :
       /\ ok \/ prior = 0
       /\ proc = IF ok THEN "running" ELSE "exception"
       /\ exit_cause = IF ok THEN "none" ELSE "setup"
       /\ sequence_number_ = IF ok THEN (prior + 1) % 65536 ELSE 0
       /\ num_transmitted_ = IF ok THEN prior + 1 ELSE 0
       /\ timer_ = IF ok THEN timer_arm("handle_timeout", TimeoutTicks) ELSE timer_idle
       /\ receiving = ok
       /\ lastSend = [n |-> IF ok THEN 1 ELSE 0,
                      seq |-> IF ok THEN (prior + 1) % 65536 ELSE 0,
                      prev_seq |-> prior % 65536, interval |-> 0, prev |-> NewCycle]
  /\ num_replies_ = 0
  /\ num_received_ = 0
  /\ ttl_min_ = F(LDBL_MAX)
  /\ ttl_max_ = F(0)
  /\ ttl_sum_ = F(0)
  /\ ttl_sum2_ = F(0)
  /\ elapsed = 0
  /\ cycle = NewCycle
  /\ lastEvent = Ev("pinger", <<>>, "none", "ok", FALSE, -1)
  /\ summary = NoSummary
  /\ hdr = icmp_header /\ body = <<>> /\ wire = <<>> /\ rx = icmp_header
  /\ args = NoArgs
  /\ cstep = "off"
  /\ HarnessOff

\* the clock advances; a tick with a dispatchable timer handler is dispatch
\* latency, of which a cycle has at most MaxLag ticks
Tick ==
  /\ proc = "running"
  /\ timer_due => cycle.lag < MaxLag
  /\ elapsed' = elapsed + 1
  /\ cycle' = [cycle EXCEPT !.lag = IF timer_due THEN @ + 1 ELSE @]
  /\ lastEvent' = Ev("tick", <<>>, "none", "ok", FALSE, -1)
  /\ UNCHANGED <<proc, exit_cause, pid, sequence_number_, num_replies_,
                 num_transmitted_, num_received_, ttl_min_, ttl_max_, ttl_sum_,
                 ttl_sum2_, timer_, receiving, lastSend, summary, codecVars, harnessVars>>

\* the reactor finds the timer expired and queues its handler
TimerFire ==
  /\ proc = "running"
  /\ timer_.status = "pending"
  /\ timer_.expiry <= elapsed
  /\ timer_' = [timer_ EXCEPT !.status = "ready", !.ec = "ok"]
  /\ lastEvent' = Ev("timer_fire", <<>>, "none", "ok", FALSE, -1)
  /\ UNCHANGED <<proc, exit_cause, pid, sequence_number_, num_replies_,
                 num_transmitted_, num_received_, ttl_min_, ttl_max_, ttl_sum_,
                 ttl_sum2_, elapsed, receiving, cycle, lastSend, summary, codecVars, harnessVars>>

\* faulty variant: the next send is delayed by one second from now
next_send_expiry_from_now == elapsed + DelayTicks
\* time_sent_ + seconds(1), relative to time_sent_
next_send_expiry == DelayTicks

\* pinger::handle_timeout(ec)
HandleTimeout ==
  /\ proc = "running"
  /\ timer_.status = "ready"
  /\ timer_.handler = "handle_timeout"
  /\ LET notice == num_replies_ = 0 /\ timer_.ec = "ok"
     IN /\ cycle' = [cycle EXCEPT !.notices = IF notice THEN @ + 1 ELSE @,
                                  !.timeouts = @ + 1]
        /\ lastEvent' = Ev("handle_timeout",
                           IF notice THEN <<"Request timed out">> ELSE <<>>,
                           "none", timer_.ec, FALSE, -1)
  /\ timer_' = timer_arm("start_send", next_send_expiry)
  /\ UNCHANGED <<proc, exit_cause, pid, sequence_number_, num_replies_,
                 num_transmitted_, num_received_, ttl_min_, ttl_max_, ttl_sum_,
                 ttl_sum2_, elapsed, receiving, lastSend, summary, codecVars, harnessVars>>

\* faulty variant: the sequence number is not incremented
pre_increment_missing(n) == n
\* ++sequence_number_ on an unsigned short
pre_increment(n) == (n + 1) % 65536

\* pinger::start_send(), as the handler of the inter-probe wait (its error
\* code is not looked at); send_ok = FALSE: socket_.send_to throws
StartSend ==
  /\ proc = "running"
  /\ timer_.status = "ready"
  /\ timer_.handler = "start_send"
  /\ lastSend.n < MaxSends
  /\ \E send_ok \in BOOLEAN :
       /\ sequence_number_' = pre_increment(sequence_number_)
       /\ num_transmitted_' = num_transmitted_ + 1
       /\ elapsed' = 0
       /\ proc' = IF send_ok THEN "running" ELSE "exception"
       /\ exit_cause' = IF send_ok THEN exit_cause ELSE "send_to"
       /\ num_replies_' = IF send_ok THEN 0 ELSE num_replies_
       /\ timer_' = IF send_ok THEN timer_arm("handle_timeout", TimeoutTicks) ELSE timer_idle
       /\ lastEvent' = Ev("start_send", <<>>, "none", IF send_ok THEN "ok" ELSE "error",
                          FALSE, -1)
  /\ cycle' = NewCycle
  /\ lastSend' = [n |-> lastSend.n + 1, seq |-> sequence_number_', prev_seq |-> sequence_number_,
                  interval |-> elapsed, prev |-> cycle]
  /\ UNCHANGED <<pid, num_received_, ttl_min_, ttl_max_, ttl_sum_, ttl_sum2_,
                 receiving, summary, codecVars, harnessVars>>

\* handle_receive line 287: the datagram is older than the timeout window
too_late == total_milliseconds(elapsed) > TimeoutMs

\* what handle_receive decodes from the committed bytes (lines 290-293)
decode_reply(bytes) ==
  LET ip == ipv4_read(MkStream(bytes), ipv4_header)
      ic == icmp_read(ip.is, icmp_header)
  IN [ok |-> ~ic.is.fail, length |-> Len(bytes),
      ipv4_hdr |-> ip.rep, icmp_hdr |-> ic.rep]

\* The datagrams the socket can deliver in this model, decoded once: entry
\* Slot(k, p, q, j) is datagram kind k for pid p in the j-th cycle after
\* PriorSends[q] earlier ones.
Cycles == MaxSends + 1
Slot(k, p, q, j) == (((k - 1) * Len(Pids) + (p - 1)) * Len(PriorSends) + (q - 1)) * Cycles + j
Received ==
  [n \in 1..(Len(DatagramKinds) * Len(Pids) * Len(PriorSends) * Cycles) |->
     LET j == ((n - 1) % Cycles) + 1
         q == (((n - 1) \div Cycles) % Len(PriorSends)) + 1
         p == (((n - 1) \div (Cycles * Len(PriorSends))) % Len(Pids)) + 1
         k == ((n - 1) \div (Cycles * Len(PriorSends) * Len(Pids))) + 1
     IN decode_reply(DatagramBytes(DatagramKinds[k], Pids[p] % 65536,
                                   (PriorSends[q] + j) % 65536))] \o <<>>

\* async_receive completes with a datagram of kind DatagramKinds[k] built
\* for the session's identifier and current sequence number
receive(k) ==
  LET p == CHOOSE p \in DOMAIN Pids : Pids[p] = pid
      c == CHOOSE c \in (DOMAIN PriorSends) \X (1..Cycles) :
             (PriorSends[c[1]] + c[2]) % 65536 = sequence_number_
  IN Received[Slot(k, p, c[1], c[2])]

\* the arrival times of matching replies that the model tries, in ticks
\* after the send: at once, just before and at the one-second deadline, just
\* before and at the timeout; later ones are too late
ReplyTimes == {0, DelayTicks - 1, DelayTicks, TimeoutTicks - 1, TimeoutTicks}

\* faulty variant: the sequence number is not compared
filter_no_sequence(d) ==
  /\ d.ok
  /\ icmp_type(d.icmp_hdr) = echo_reply
  /\ icmp_identifier(d.icmp_hdr) = get_identifier
\* the filter of handle_receive (lines 296-298)
filter(d) ==
  /\ d.ok
  /\ icmp_type(d.icmp_hdr) = echo_reply
  /\ icmp_identifier(d.icmp_hdr) = get_identifier
  /\ icmp_sequence_number(d.icmp_hdr) = sequence_number_

\* faulty variant: every accepted reply cancels the timer
cancels_timer_always == TRUE
\* num_replies_++ == 0
cancels_timer == num_replies_ = 0

\* faulty variant: the round trip is measured from the timer's deadline
rtt_from_deadline == F(Max(0, timer_.expiry - elapsed))
\* (now - time_sent_).total_microseconds() / 1000.0, kept in ticks
rtt == F(elapsed)

\* whether handle_receive reaches start_receive() (line 319): the early
\* return of line 287 leaves without it
rearm(ec, late) == ec # "ok" \/ ~late

\* pinger::handle_receive(ec, length), followed by start_receive()
HandleReceive ==
  /\ proc = "running"
  /\ receiving
  /\ \E ec \in {"ok", "error"}, k \in DOMAIN DatagramKinds :
       /\ (ec = "ok") = (DatagramKinds[k] # "none")
       /\ LET kind == DatagramKinds[k]
              d == receive(k)
              length == d.length
              accept == ec = "ok" /\ ~too_late /\ filter(d)
              cancel == accept /\ cancels_timer
              ttl == rtt
              line == [bytes |-> length - ipv4_header_length(d.ipv4_hdr),
                       icmp_seq |-> icmp_sequence_number(d.icmp_hdr),
                       ttl |-> ipv4_time_to_live(d.ipv4_hdr),
                       time |-> ttl]
          IN /\ accept => num_received_ < MaxReceived /\ elapsed \in ReplyTimes
             /\ num_replies_' = IF accept THEN num_replies_ + 1 ELSE num_replies_
             /\ timer_' = IF cancel THEN timer_cancel(timer_) ELSE timer_
             /\ num_received_' = IF accept THEN num_received_ + 1 ELSE num_received_
             /\ ttl_min_' = IF accept THEN fmin(ttl_min_, ttl) ELSE ttl_min_
             /\ ttl_max_' = IF accept THEN fmax(ttl_max_, ttl) ELSE ttl_max_
             /\ ttl_sum_' = IF accept THEN FAdd(ttl_sum_, ttl) ELSE ttl_sum_
             /\ ttl_sum2_' = IF accept THEN FAdd(ttl_sum2_, FMul(ttl, ttl)) ELSE ttl_sum2_
             /\ receiving' = rearm(ec, too_late)
             /\ cycle' = IF accept
                           THEN [cycle EXCEPT !.reports = @ + 1,
                                              !.first = IF @ = -1 THEN elapsed ELSE @,
                                              !.cancels = IF cancel THEN @ + 1 ELSE @]
                           ELSE cycle
             /\ lastEvent' = Ev("handle_receive",
                                IF accept THEN <<line>> ELSE <<>>,
                                kind, ec, accept,
                                IF ~cancel THEN -1
                                ELSE IF timer_cancel(timer_) # timer_ THEN 1 ELSE 0)
  /\ UNCHANGED <<proc, exit_cause, pid, sequence_number_, num_transmitted_,
                 elapsed, lastSend, summary, codecVars, harnessVars>>

\* faulty variant: the summary is printed but the process does not exit
HandleTermination_no_exit ==
  /\ proc = "running"
  /\ LET mean == FDiv(ttl_sum_, num_received_)
         mean2 == FDiv(ttl_sum2_, num_received_)
     IN /\ ttl_sum_' = mean
        /\ ttl_sum2_' = mean2
        /\ summary' = [printed |-> TRUE,
                       transmitted |-> num_transmitted_,
                       received |-> num_received_,
                       lossed |-> num_transmitted_ - num_received_,
                       loss |-> FDiv(F(num_transmitted_ - num_received_), num_transmitted_),
                       min |-> ttl_min_, avg |-> mean, max |-> ttl_max_,
                       \* ttl_mdev is the square root of this
                       mdev_sq |-> FSub(mean2, FMul(mean, mean))]
  /\ proc' = "running"
  /\ exit_cause' = "none"
  /\ lastEvent' = Ev("handle_termination", <<>>, "none", "ok", FALSE, -1)
  /\ UNCHANGED <<pid, sequence_number_, num_replies_, num_transmitted_, num_received_,
                 ttl_min_, ttl_max_, elapsed, timer_, receiving, cycle, lastSend,
                 codecVars, harnessVars>>
\* pinger::handle_termination(ec, n): the SIGINT handler; exit(0)
HandleTermination ==
  /\ proc = "running"
  /\ LET mean == FDiv(ttl_sum_, num_received_)
         mean2 == FDiv(ttl_sum2_, num_received_)
     IN /\ ttl_sum_' = mean
        /\ ttl_sum2_' = mean2
        /\ summary' = [printed |-> TRUE,
                       transmitted |-> num_transmitted_,
                       received |-> num_received_,
                       lossed |-> num_transmitted_ - num_received_,
                       loss |-> FDiv(F(num_transmitted_ - num_received_), num_transmitted_),
                       min |-> ttl_min_, avg |-> mean, max |-> ttl_max_,
                       \* ttl_mdev is the square root of this
                       mdev_sq |-> FSub(mean2, FMul(mean, mean))]
  /\ proc' = "terminated"
  /\ exit_cause' = "signal"
  /\ lastEvent' = Ev("handle_termination", <<>>, "none", "ok", FALSE, -1)
  /\ UNCHANGED <<pid, sequence_number_, num_replies_, num_transmitted_, num_received_,
                 ttl_min_, ttl_max_, elapsed, timer_, receiving, cycle, lastSend,
                 codecVars, harnessVars>>

Next ==
  \/ Tick
  \/ TimerFire
  \/ HandleTimeout
  \/ StartSend
  \/ HandleReceive
  \/ HandleTermination

Spec == Init /\ [][Next]_vars

\* io_service::run() keeps dispatching: time passes, an expired wait is
\* found, and a queued handler is run
SpecLive ==
  /\ Spec
  /\ WF_vars(Tick)
  /\ WF_vars(TimerFire)
  /\ WF_vars(HandleTimeout)
  /\ WF_vars(StartSend)

TypeOK ==
  /\ proc \in {"running", "terminated", "exception"}
  /\ elapsed \in 0..MaxElapsed
  /\ sequence_number_ \in 0..65535
  /\ timer_.status \in {"idle", "pending", "ready"}

\* ------------------------------------------------------------ codec harness
\* The header codec driven on its own: an icmp_header is filled in through
\* its setters, checksummed over a body, written to a stream and read back.
\* args remembers the values handed to the setters.
Types == {echo_reply, echo_request, 255}
Codes == {0, 255}
Words == {0, 1, 4660, 65535}
BodyBytes == {0, 255}
Bodies == UNION {[1..n -> BodyBytes] : n \in 0..MaxBodyLen}

InitCodec ==
  /\ proc = "codec" /\ exit_cause = "none" /\ pid = Pids[1]
  /\ sequence_number_ = 0 /\ num_replies_ = 0
  /\ num_transmitted_ = 0 /\ num_received_ = 0
  /\ ttl_min_ = F(LDBL_MAX) /\ ttl_max_ = F(0) /\ ttl_sum_ = F(0) /\ ttl_sum2_ = F(0)
  /\ elapsed = 0 /\ timer_ = timer_idle /\ receiving = FALSE
  /\ cycle = NewCycle
  /\ lastSend = [n |-> 0, seq |-> 0, prev_seq |-> 0, interval |-> 0, prev |-> NewCycle]
  /\ lastEvent = Ev("icmp_header", <<>>, "none", "ok", FALSE, -1)
  /\ summary = NoSummary
  /\ hdr = icmp_header
  /\ body \in Bodies
  /\ wire = <<>>
  /\ rx = icmp_header
  /\ args = NoArgs
  /\ cstep = "build"
  /\ HarnessOff

Building == cstep \in {"build", "summed"}

\* icmp_header::type(byte_type n)
SetType ==
  /\ Building
  /\ \E n \in Types :
       /\ hdr' = icmp_set_type(hdr, n)
       /\ args' = [args EXCEPT !.type = n]
  /\ cstep' = "build"
  /\ UNCHANGED <<sessionVars, harnessVars, body, wire, rx>>

\* icmp_header::code(byte_type n)
SetCode ==
  /\ Building
  /\ \E n \in Codes :
       /\ hdr' = icmp_set_code(hdr, n)
       /\ args' = [args EXCEPT !.code = n]
  /\ cstep' = "build"
  /\ UNCHANGED <<sessionVars, harnessVars, body, wire, rx>>

\* icmp_header::identifier(unsigned short n)
SetIdentifier ==
  /\ Building
  /\ \E n \in Words :
       /\ hdr' = icmp_set_identifier(hdr, n)
       /\ args' = [args EXCEPT !.identifier = n]
  /\ cstep' = "build"
  /\ UNCHANGED <<sessionVars, harnessVars, body, wire, rx>>

\* icmp_header::sequence_number(unsigned short n)
SetSequenceNumber ==
  /\ Building
  /\ \E n \in Words :
       /\ hdr' = icmp_set_sequence_number(hdr, n)
       /\ args' = [args EXCEPT !.sequence_number = n]
  /\ cstep' = "build"
  /\ UNCHANGED <<sessionVars, harnessVars, body, wire, rx>>

\* icmp_header::checksum(unsigned short n)
SetChecksum ==
  /\ Building
  /\ \E n \in Words :
       /\ hdr' = icmp_set_checksum(hdr, n)
       /\ args' = [args EXCEPT !.checksum = n]
  /\ cstep' = "build"
  /\ UNCHANGED <<sessionVars, harnessVars, body, wire, rx>>

\* compute_checksum(header, body.begin(), body.end())
ComputeChecksum ==
  /\ Building
  /\ hdr' = compute_checksum(hdr, body)
  /\ args' = [args EXCEPT !.checksum = checksum_value(hdr, body)]
  /\ cstep' = "summed"
  /\ UNCHANGED <<sessionVars, harnessVars, body, wire, rx>>

\* os << header << body
WriteHeader ==
  /\ Building
  /\ wire' = icmp_write(<<>>, hdr) \o body
  /\ cstep' = "written"
  /\ UNCHANGED <<sessionVars, harnessVars, hdr, body, rx, args>>

\* is >> header, into a fresh icmp_header
ReadHeader ==
  /\ cstep = "written"
  /\ rx' = icmp_read(MkStream(wire), icmp_header).rep
  /\ cstep' = "read"
  /\ UNCHANGED <<sessionVars, harnessVars, hdr, body, wire, args>>

NextCodec ==
  \/ SetType
  \/ SetCode
  \/ SetIdentifier
  \/ SetSequenceNumber
  \/ SetChecksum
  \/ ComputeChecksum
  \/ WriteHeader
  \/ ReadHeader

SpecCodec == InitCodec /\ [][NextCodec]_vars


\* ----------------------------------------------------------- decode harness
\* The two header decoders driven on their own, as handle_receive does
\* (is >> ipv4_hdr >> icmp_hdr), on datagrams with every header length
\* nibble, cut at every boundary of interest.  wire keeps the datagram.
DecodeVersions == {4, 6}
DecodeCuts(full, hl) ==
  {n \in {0, 1, 19, 20, hl - 1, hl, hl + 7, hl + 8, Len(full)} : n >= 0 /\ n <= Len(full)}
DecodeInputs ==
  UNION {LET full == MkIpv4(v, ihl, 64) \o MkIcmp(echo_reply, 4660, 1, <<BodyByte, BodyByte>>)
         IN {Take(full, n) : n \in DecodeCuts(full, ihl * 4)} :
         v \in DecodeVersions, ihl \in 0..15}

InitDecode ==
  /\ proc = "codec" /\ exit_cause = "none" /\ pid = Pids[1]
  /\ sequence_number_ = 0 /\ num_replies_ = 0
  /\ num_transmitted_ = 0 /\ num_received_ = 0
  /\ ttl_min_ = F(LDBL_MAX) /\ ttl_max_ = F(0) /\ ttl_sum_ = F(0) /\ ttl_sum2_ = F(0)
  /\ elapsed = 0 /\ timer_ = timer_idle /\ receiving = FALSE
  /\ cycle = NewCycle
  /\ lastSend = [n |-> 0, seq |-> 0, prev_seq |-> 0, interval |-> 0, prev |-> NewCycle]
  /\ lastEvent = Ev("ipv4_header", <<>>, "none", "ok", FALSE, -1)
  /\ summary = NoSummary
  /\ hdr = icmp_header /\ body = <<>> /\ args = NoArgs
  /\ wire \in DecodeInputs
  /\ stream = MkStream(wire)
  /\ ip_hdr = ipv4_header
  /\ rx = icmp_header
  /\ samples = <<>>
  /\ cstep = "received"

\* is >> ipv4_hdr
ReadIpv4 ==
  /\ cstep = "received"
  /\ LET r == ipv4_read(stream, ip_hdr)
     IN /\ stream' = r.is
        /\ ip_hdr' = r.rep
  /\ cstep' = "ipv4_read"
  /\ UNCHANGED <<sessionVars, hdr, body, wire, rx, args, samples>>

\* ... >> icmp_hdr
ReadIcmp ==
  /\ cstep = "ipv4_read"
  /\ LET r == icmp_read(stream, rx)
     IN /\ stream' = r.is
        /\ rx' = r.rep
  /\ cstep' = "icmp_read"
  /\ UNCHANGED <<sessionVars, hdr, body, wire, args, ip_hdr, samples>>

NextDecode ==
  \/ ReadIpv4
  \/ ReadIcmp

SpecDecode == InitDecode /\ [][NextDecode]_vars


\* ------------------------------------------------------- statistics harness
\* The accumulator driven on its own: a session after its first send accepts
\* replies whose round-trip times, in milliseconds, are drawn from
\* SampleTimes, and is then terminated.  samples remembers the times.
SampleTimes == {0, 10, 20, 30}

InitStats ==
  /\ proc = "running" /\ exit_cause = "none" /\ pid = Pids[1]
  /\ sequence_number_ = 1 /\ num_replies_ = 0
  /\ num_transmitted_ = 1 /\ num_received_ = 0
  /\ ttl_min_ = F(LDBL_MAX) /\ ttl_max_ = F(0) /\ ttl_sum_ = F(0) /\ ttl_sum2_ = F(0)
  /\ elapsed = 0 /\ timer_ = timer_arm("handle_timeout", TimeoutTicks) /\ receiving = TRUE
  /\ cycle = NewCycle
  /\ lastSend = [n |-> 1, seq |-> 1, prev_seq |-> 0, interval |-> 0, prev |-> NewCycle]
  /\ lastEvent = Ev("pinger", <<>>, "none", "ok", FALSE, -1)
  /\ summary = NoSummary
  /\ hdr = icmp_header /\ body = <<>> /\ wire = <<>> /\ rx = icmp_header
  /\ args = NoArgs
  /\ cstep = "off"
  /\ ip_hdr = ipv4_header /\ stream = MkStream(<<>>)
  /\ samples = <<>>

\* the statistics update of handle_receive for an accepted reply whose
\* round-trip time is ms milliseconds
AcceptSample ==
  /\ proc = "running"
  /\ Len(samples) < MaxSamples
  /\ \E ms \in SampleTimes :
       LET ttl == F(ms)
       IN /\ num_received_' = num_received_ + 1
          /\ ttl_min_' = fmin(ttl_min_, ttl)
          /\ ttl_max_' = fmax(ttl_max_, ttl)
          /\ ttl_sum_' = FAdd(ttl_sum_, ttl)
          /\ ttl_sum2_' = FAdd(ttl_sum2_, FMul(ttl, ttl))
          /\ samples' = Append(samples, ms)
  /\ UNCHANGED <<proc, exit_cause, pid, sequence_number_, num_replies_, num_transmitted_,
                 elapsed, timer_, receiving, cycle, lastSend, lastEvent, summary,
                 codecVars, ip_hdr, stream>>

NextStats ==
  \/ AcceptSample
  \/ HandleTermination

SpecStats == InitStats /\ [][NextStats]_vars

\* ------------------------------------------------------------------ claims
\* RFC 1071 verification: the one's-complement sum of the 16-bit big-endian
\* words of a byte sequence (an odd last byte padded with a zero byte), with
\* end-around carry, complemented.
WordSum(bytes) ==
  LET acc[i \in 0..Len(bytes)] ==
        IF i = 0 THEN 0
        ELSE acc[i - 1] + (IF i % 2 = 1 THEN bytes[i] * 256 ELSE bytes[i])
  IN acc[Len(bytes)]
EndAround(s) == (s \div 65536) + (s % 65536)
InternetChecksum(bytes) == 65535 - EndAround(EndAround(EndAround(WordSum(bytes))))

\* C9: after compute_checksum has stored the checksum, the complemented
\* one's-complement sum over the whole header (checksum field included)
\* followed by the body is 0, for bodies of even and odd length and the
\* empty body.
C9_ChecksumRoundTrip ==
  cstep = "summed" => InternetChecksum(icmp_write(<<>>, hdr) \o body) = 0

\* C9 witness: a checksummed header over an odd-length body whose sum needed
\* both folds
C9_Witness ==
  /\ cstep = "summed"
  /\ Len(body) % 2 = 1
  /\ icmp_type(hdr) * 256 + icmp_code(hdr) + icmp_identifier(hdr)
       + icmp_sequence_number(hdr) + body_sum(body) > 65535
  /\ icmp_checksum(hdr) # 0

\* C10: decoding the 8 serialised bytes of a header returns the type, code,
\* checksum, identifier and sequence number that were written into it.
C10_EncodeDecodeInverse ==
  cstep = "read" =>
    /\ icmp_type(rx) = args.type
    /\ icmp_code(rx) = args.code
    /\ icmp_checksum(rx) = args.checksum
    /\ icmp_identifier(rx) = args.identifier
    /\ icmp_sequence_number(rx) = args.sequence_number

\* C10 witness: a header read back whose 16-bit fields have different high
\* and low bytes
C10_Witness ==
  /\ cstep = "read"
  /\ args.type = 255 /\ args.code = 255
  /\ args.identifier = 4660 /\ args.sequence_number = 1 /\ args.checksum = 4660
  /\ Len(wire) > 8

\* C1 (as claimed): in every state in which the session has not ended, an
\* asynchronous receive is pending.
C1_ReceiveAlwaysArmed == proc = "running" => receiving

\* the cycle that the last send closed: no reply was accepted in it
AfterSilentCycle == lastSend.n > 1 /\ lastSend.prev.reports = 0

\* C2 (as claimed): after a cycle without an accepted reply there was
\* exactly one timeout notice and the next send happens 6 s after the
\* previous one (dispatch latency aside) with the next sequence number.
C2_NextSendAfterSixSeconds ==
  AfterSilentCycle =>
    /\ lastSend.prev.notices = 1
    /\ lastSend.interval = TimeoutTicks + DelayTicks + lastSend.prev.lag
    /\ lastSend.seq = lastSend.prev_seq + 1

\* C2 (amended): after a cycle without an accepted reply there was exactly
\* one timeout notice, and the next send happens 5 s after the previous one
\* plus the dispatch latency of the cycle (the deadline time_sent_ + 1 s of
\* the inter-probe wait has passed when it is armed), with the sequence
\* number incremented modulo 2^16.
C2_NextSendAfterTimeout ==
  AfterSilentCycle =>
    /\ lastSend.prev.notices = 1
    /\ lastSend.interval = TimeoutTicks + lastSend.prev.lag
    /\ lastSend.seq = (lastSend.prev_seq + 1) % 65536

\* C2 witness: a send exactly 5 s after a request that timed out
C2_Witness ==
  /\ AfterSilentCycle
  /\ lastSend.prev.notices = 1
  /\ lastSend.prev.lag = 0
  /\ lastSend.interval = TimeoutTicks
  /\ lastEvent.kind = "start_send"

\* C3: an accepted reply prints exactly one report line, whose time is the
\* time since the send; a first reply accepted less than 1 s after the send
\* cancels the pending 5 s wait, its cycle never gets a timeout notice, and
\* the next send happens 1 s after the previous send (plus the dispatch
\* latency of the cycle), whatever the reply time was.
C3_ReplyCycle ==
  /\ (lastEvent.kind = "handle_receive" /\ lastEvent.accepted) =>
       /\ Len(lastEvent.lines) = 1
       /\ lastEvent.lines[1].time = F(elapsed)
       /\ lastEvent.lines[1].icmp_seq = sequence_number_
       /\ (cycle.reports = 1 /\ elapsed < DelayTicks) =>
            /\ lastEvent.cancelled = 1
            /\ timer_.handler = "handle_timeout"
            /\ timer_.status = "ready" /\ timer_.ec = "aborted"
  /\ (cycle.first >= 0 /\ cycle.first < DelayTicks) => cycle.notices = 0
  /\ (lastSend.n > 1 /\ lastSend.prev.first >= 0 /\ lastSend.prev.first < DelayTicks) =>
       /\ lastSend.prev.notices = 0
       /\ lastSend.interval >= DelayTicks
       /\ lastSend.interval <= DelayTicks + lastSend.prev.lag

\* C3 witness: a send exactly 1 s after a request whose reply was accepted
\* half-way through that second
C3_Witness ==
  /\ lastSend.n > 1
  /\ lastSend.prev.first > 0 /\ lastSend.prev.first < DelayTicks
  /\ lastSend.prev.reports = 1
  /\ lastSend.interval = DelayTicks
  /\ num_received_ = 1 /\ ttl_sum_ = F(lastSend.prev.first)

\* C4 (as claimed): no cycle has both a timeout notice and a report line.
C4_NoReportAfterTimeout ==
  /\ ~(cycle.notices > 0 /\ cycle.reports > 0)
  /\ ~(lastSend.prev.notices > 0 /\ lastSend.prev.reports > 0)

\* the datagram handled last is one the claim says is dropped: identifier,
\* sequence number or type do not match, or it is handled more than 5 s
\* after the send timestamp
DroppedLast ==
  /\ lastEvent.kind = "handle_receive"
  /\ lastEvent.ec = "ok"
  /\ \/ lastEvent.dgram \in {"reply_other_id", "reply_prev_seq", "request"}
     \/ total_milliseconds(elapsed) > TimeoutMs

C6_NoDataWellDefined ==
  (summary.printed /\ summary.received = 0) =>
    /\ ~IsNaN(summary.avg)
    /\ ~IsNaN(summary.mdev_sq)

\* C7 (as claimed): the only exception that reaches main comes from the
\* setup in the constructor, never from the send/receive loop.
C7_OnlySetupFailuresEndProcess ==
  proc = "exception" => exit_cause = "setup"

\* C8: two consecutive sends are at least 1 s apart.
C8_MinimumInterval ==
  lastSend.n > 1 => lastSend.interval >= DelayTicks

\* C8 witness: a send exactly 1 s after one that was answered at once and
\* then by a duplicate
C8_Witness ==
  /\ lastSend.n > 1
  /\ lastSend.interval = DelayTicks
  /\ lastSend.prev.first = 0
  /\ lastSend.prev.reports >= 2

\* the version nibble and the header length that the datagram on the wire
\* announces in its first byte
WireVersion == IF Len(wire) = 0 THEN 0 ELSE wire[1] \div 16
WireHeaderLength == IF Len(wire) = 0 THEN 0 ELSE (wire[1] % 16) * 4

\* C11: decoding an IPv4 header fails when the version nibble is not 4 or
\* the header length is below 20 (above 60 cannot be encoded); for version 4
\* and a header length of 20..60 that the datagram holds, it succeeds and
\* consumes exactly header_length bytes, and the ICMP header is the 8 bytes
\* at offset header_length.
C11_Ipv4DecodeValidation ==
  /\ cstep \in {"ipv4_read", "icmp_read"} =>
       /\ (WireVersion # 4 \/ WireHeaderLength < 20 \/ WireHeaderLength > 60) => stream.fail
       /\ ~stream.fail => ipv4_header_length(ip_hdr) = WireHeaderLength
  /\ (cstep = "ipv4_read" /\ WireVersion = 4 /\ WireHeaderLength \in 20..60
        /\ Len(wire) >= WireHeaderLength) =>
       /\ ~stream.fail
       /\ stream.buf = Drop(wire, WireHeaderLength)
       /\ Take(ip_hdr, WireHeaderLength) = Take(wire, WireHeaderLength)
  /\ (cstep = "icmp_read" /\ WireVersion = 4 /\ WireHeaderLength \in 20..60
        /\ Len(wire) >= WireHeaderLength + 8) =>
       /\ ~stream.fail
       /\ rx = SubSeq(wire, WireHeaderLength + 1, WireHeaderLength + 8)

\* C11 witness: a version 4 header with 40 bytes of options was consumed and
\* the ICMP header read behind it
C11_Witness ==
  /\ cstep = "icmp_read"
  /\ WireVersion = 4 /\ WireHeaderLength = 60
  /\ ~stream.fail
  /\ Len(stream.buf) = Len(wire) - 68
  /\ icmp_identifier(rx) = 4660

\* minimum, maximum, sum and sum of squares of a sequence of samples
SeqFold(sq, op(_, _), unit) ==
  LET acc[i \in 0..Len(sq)] == IF i = 0 THEN unit ELSE op(acc[i - 1], sq[i])
  IN acc[Len(sq)]
SeqMin(sq) == SeqFold(sq, Min, LDBL_MAX)
SeqMax(sq) == SeqFold(sq, Max, 0)
PlusOp(a, b) == a + b
PlusSquareOp(a, b) == a + b * b
SeqSum(sq) == SeqFold(sq, PlusOp, 0)
SeqSum2(sq) == SeqFold(sq, PlusSquareOp, 0)
\* the fraction x has the value a / b
FIs(x, a, b) == x.den # 0 /\ b # 0 /\ x.num * b = a * x.den

\* the accumulator after the samples s1..sn, n >= 1, and the mean and the
\* square of mdev that termination reports for them
StatsOfSamples ==
  Len(samples) >= 1 =>
    LET n == Len(samples)
        sum == SeqSum(samples)
        sum2 == SeqSum2(samples)
    IN /\ num_received_ = n
       /\ ttl_min_ = F(SeqMin(samples))
       /\ ttl_max_ = F(SeqMax(samples))
       /\ ~summary.printed => ttl_sum_ = F(sum) /\ ttl_sum2_ = F(sum2)
       /\ summary.printed =>
            /\ summary.received = n
            /\ summary.min = ttl_min_ /\ summary.max = ttl_max_
            /\ FIs(summary.avg, sum, n)
            \* sum2/n - (sum/n)^2 = (n sum2 - sum^2) / n^2
            /\ FIs(summary.mdev_sq, n * sum2 - sum * sum, n * n)

\* C12: after the samples s1..sn the accumulator holds their minimum,
\* maximum, sum, sum of squares and count, and termination reports
\* mean = sum/n and mdev = sqrt(sum2/n - mean^2); for [10, 20, 30] ms that is
\* min 10, max 30, mean 20 and mdev = sqrt(466.67 - 400) = sqrt(66.67),
\* between 8.16 and 8.17.
C12_StatisticsAccumulator ==
  /\ StatsOfSamples
  /\ (samples = <<10, 20, 30>> /\ summary.printed) =>
       /\ FIs(summary.min, 10, 1)
       /\ FIs(summary.max, 30, 1)
       /\ FIs(summary.avg, 20, 1)
       /\ FIs(ttl_sum2_, 1400, 3)
       /\ FIs(summary.mdev_sq, 200, 3)
       /\ 816 * 816 * summary.mdev_sq.den < summary.mdev_sq.num * 10000
       /\ summary.mdev_sq.num * 10000 < 817 * 817 * summary.mdev_sq.den

\* C12 as stated: for [10, 20, 30] ms the mean of the squares is 933.33 and
\* mdev = sqrt(933.33 - 400) = sqrt(533.33)
C12_AsStated ==
  /\ StatsOfSamples
  /\ (samples = <<10, 20, 30>> /\ summary.printed) =>
       /\ FIs(summary.min, 10, 1)
       /\ FIs(summary.max, 30, 1)
       /\ FIs(summary.avg, 20, 1)
       /\ FIs(ttl_sum2_, 2800, 3)
       /\ FIs(summary.mdev_sq, 1600, 3)

\* C12 witness: the summary was printed after the samples 10, 20, 30
C12_Witness ==
  /\ samples = <<10, 20, 30>>
  /\ summary.printed
  /\ proc = "terminated"
  /\ num_received_ = 3

\* C13: the termination handler runs at most once; once it has printed the
\* summary the process has exited, so no send, timeout or receive step
\* follows and no counter or statistic changes; and it can run in every
\* state of a running session.
C13_TerminationIsFinal ==
  /\ [](proc = "running" => ENABLED HandleTermination)
  /\ [](summary.printed <=> proc = "terminated")
  /\ [][/\ ~summary.printed
        /\ proc = "running"
        /\ summary'.printed => lastEvent'.kind = "handle_termination"]_vars

\* C13 witness: a session terminated with a wait and a receive outstanding
\* and replies counted
C13_Witness ==
  /\ proc = "terminated"
  /\ summary.printed
  /\ timer_.status = "pending"
  /\ receiving
  /\ num_received_ > 0
  /\ lastSend.n > 1

\* C14: every send increments the 16-bit sequence number by one modulo
\* 65536: the request after sequence number n < 65535 carries n + 1, which
\* is greater, and the request after 65535 carries 0.
C14_SequenceIncrementsModulo ==
  lastSend.n > 1 =>
    /\ lastSend.seq = sequence_number_
    /\ lastSend.seq \in 0..65535
    /\ lastSend.prev_seq < 65535 => lastSend.seq = lastSend.prev_seq + 1
    /\ lastSend.prev_seq = 65535 => lastSend.seq = 0

\* C14 as stated: of two requests the later carries the strictly greater
\* sequence number, for every number of sends
C14_StrictlyIncreasing ==
  lastSend.n > 1 => lastSend.seq > lastSend.prev_seq

\* C14 witness: the send after the request with sequence number 65535
C14_Witness ==
  /\ lastSend.n > 1
  /\ lastSend.prev_seq = 65535
  /\ sequence_number_ = 0
  /\ num_transmitted_ = 65536

\* C15: of the matching replies accepted in a cycle only the first calls
\* timer_.cancel(), so the timer is cancelled exactly once; every one of
\* them increments the received counter, updates min, max, sum and sum2 and
\* prints one line; a later one leaves the timer, and with it a pending
\* inter-probe wait, alone.
C15_DuplicateReplies ==
  /\ [](/\ cycle.cancels = (IF cycle.reports >= 1 THEN 1 ELSE 0)
        /\ proc = "running" => num_replies_ = cycle.reports)
  /\ [][(lastEvent'.kind = "handle_receive" /\ lastEvent'.accepted) =>
          /\ num_received_' = num_received_ + 1
          /\ cycle'.reports = cycle.reports + 1
          /\ Len(lastEvent'.lines) = 1
          /\ lastEvent'.lines[1].time = F(elapsed)
          /\ ttl_min_' = F(Min(ttl_min_.num, elapsed))
          /\ ttl_max_' = F(Max(ttl_max_.num, elapsed))
          /\ ttl_sum_' = F(ttl_sum_.num + elapsed)
          /\ ttl_sum2_' = F(ttl_sum2_.num + elapsed * elapsed)
          /\ cycle.reports = 0 => lastEvent'.cancelled # -1
          /\ cycle.reports >= 1 => lastEvent'.cancelled = -1 /\ timer_' = timer_]_vars

\* C15 witness: a second reply was accepted while the inter-probe wait was
\* pending, and the wait is still pending
C15_Witness ==
  /\ lastEvent.kind = "handle_receive"
  /\ lastEvent.accepted
  /\ lastEvent.cancelled = -1
  /\ cycle.reports = 2
  /\ cycle.cancels = 1
  /\ timer_.handler = "start_send"
  /\ timer_.status = "pending"

\* C16: when a request is sent the cycle before it is resolved: its
\* handle_timeout has run, and it printed the notice or a reply was
\* accepted; and an accepted reply carries the sequence number sent last.
C16_SingleOutstandingRequest ==
  /\ lastSend.n > 1 =>
       /\ lastSend.prev.timeouts = 1
       /\ lastSend.prev.notices = 1 \/ lastSend.prev.reports >= 1
  /\ cycle.timeouts <= 1
  /\ (lastEvent.kind = "handle_receive" /\ lastEvent.accepted) =>
       /\ lastEvent.lines[1].icmp_seq = sequence_number_
       /\ sequence_number_ = lastSend.seq

\* C16 witness: after the next send a reply to the request before it, which
\* had been answered, is not accepted
C16_Witness ==
  /\ lastSend.n > 1
  /\ lastSend.prev.reports >= 1
  /\ lastSend.prev.notices = 0
  /\ lastEvent.kind = "handle_receive"
  /\ lastEvent.dgram = "reply_prev_seq"
  /\ ~lastEvent.accepted
  /\ num_replies_ = 0

\* the datagram handled last does not decode: it is shorter than its IPv4
\* header and 8 bytes, its version is not 4, or its options length is
\* invalid
MalformedLast ==
  /\ lastEvent.kind = "handle_receive"
  /\ lastEvent.ec = "ok"
  /\ lastEvent.dgram \in {"truncated", "bad_version", "bad_ihl"}

\* C17 (as claimed): a datagram that does not decode is never accepted; it
\* prints nothing, leaves the counters, the statistics and the timer
\* unchanged, and the session goes on: the process runs and a receive is
\* outstanding again.
C17_DecodeErrorsNonFatal ==
  [][MalformedLast' =>
       /\ ~lastEvent'.accepted
       /\ lastEvent'.lines = <<>>
       /\ lastEvent'.cancelled = -1
       /\ UNCHANGED <<num_transmitted_, num_received_, ttl_min_, ttl_max_, ttl_sum_,
                      ttl_sum2_, num_replies_, timer_, sequence_number_>>
       /\ proc' = "running"
       /\ receiving']_vars

\* the one's-complement (end-around-carry) sum of 16-bit words whose plain
\* sum is s: s reduced modulo 65535 into 1..65535, and 0 for s = 0
OnesComplementSum(s) == IF s = 0 THEN 0 ELSE ((s - 1) % 65535) + 1

\* C18: the checksum that compute_checksum stores is the 16-bit one's
\* complement of the end-around-carry sum of (type << 8) + code, identifier,
\* sequence number and the body as big-endian words, an odd last byte being
\* the high byte of a padded word; the other fields are left alone; the
\* value is the one computed with the checksum field cleared, whatever that
\* field held; and the two folds leave no carry in the 16 bits stored.
C18_ChecksumIsRfc1071 ==
  /\ [](cstep = "summed" =>
          /\ icmp_checksum(hdr) =
               65535 - OnesComplementSum(args.type * 256 + args.code + args.identifier
                                         + args.sequence_number + WordSum(body))
          /\ icmp_type(hdr) = args.type /\ icmp_code(hdr) = args.code
          /\ icmp_identifier(hdr) = args.identifier
          /\ icmp_sequence_number(hdr) = args.sequence_number)
  /\ [][cstep' = "summed" =>
          hdr' = compute_checksum(icmp_set_checksum(hdr, 0), body)]_vars

\* C18 witness: a checksum over a body of odd length whose first fold left a
\* carry for the second
C18_Witness ==
  /\ cstep = "summed"
  /\ Len(body) = MaxBodyLen /\ Len(body) % 2 = 1
  /\ body[Len(body)] # 0
  /\ LET sum0 == args.type * 256 + args.code + args.identifier + args.sequence_number
                 + WordSum(body)
     IN (sum0 \div 65536) + (sum0 % 65536) >= 65536

\* C19 (as claimed): the received counter never exceeds the transmitted
\* counter, so the lost count and the loss ratio of the summary are not
\* negative (summary.lossed is the difference before it wraps as a size_t).
C19_ReceivedAtMostTransmitted ==
  /\ num_received_ <= num_transmitted_
  /\ summary.printed =>
       /\ summary.lossed >= 0
       /\ summary.loss.num >= 0

\* C20: in every state of a running session exactly one wait is
\* outstanding on the timer, for handle_timeout or for start_send; so, unless
\* the session is terminated or a send fails, every send is followed by
\* another one (up to the MaxSends sends of the model), also after cancel()
\* met the inter-probe wait or a timer that had expired.
C20_SendLoopNeverStalls ==
  /\ [](proc = "running" =>
          /\ timer_.status \in {"pending", "ready"}
          /\ timer_.handler \in {"handle_timeout", "start_send"}
          /\ timer_.handler = "handle_timeout" <=> cycle.timeouts = 0)
  /\ \A k \in 1..(MaxSends - 1) :
       (proc = "running" /\ lastSend.n = k) ~> (lastSend.n = k + 1 \/ proc # "running")

\* C20 witness: a send followed a cycle in which the first reply came after
\* the timeout notice, so that cancel() met the inter-probe wait
C20_Witness ==
  /\ proc = "running"
  /\ lastSend.n > 1
  /\ lastSend.prev.notices = 1
  /\ lastSend.prev.reports >= 1
  /\ lastSend.prev.cancels = 1
  /\ timer_.handler = "handle_timeout"
  /\ timer_.status = "pending"

\* C21: the termination handler runs only in a session whose constructor
\* has sent the first request, so whenever it can run, and in every summary
\* it has printed, the transmitted counter is at least 1 and the loss ratio
\* is a division by a positive number.
C21_TerminationAfterFirstSend ==
  /\ ENABLED HandleTermination => num_transmitted_ >= 1
  /\ summary.printed =>
       /\ summary.transmitted >= 1
       /\ summary.transmitted = num_transmitted_
       /\ summary.loss.den = summary.transmitted
       /\ ~IsNaN(summary.loss)
  /\ num_transmitted_ = 0 => proc = "exception" /\ exit_cause = "setup"

\* C21 witness: the session was terminated right after its constructor, with
\* the one request of the constructor sent
C21_Witness ==
  /\ proc = "terminated"
  /\ summary.printed
  /\ summary.transmitted = 1
  /\ summary.received = 0
  /\ lastSend.n = 1
  /\ elapsed = 0

====
